---- MODULE Spec2Model ----
(***************************************************************************)
(* Model of scripts/generate-image.py: the command line frontend main()    *)
(* and the handler generate_image().  One process invocation is a run of   *)
(* the actions Start .. MainSuccess / MainExcept; the file system and the  *)
(* wall clock persist from one invocation to the next.                     *)
(*                                                                         *)
(* Python values: None is the empty tuple and a present value v is <<v>>;  *)
(* prompts, file names and paths are sequences of one-character strings.   *)
(***************************************************************************)
EXTENDS Integers, Sequences, FiniteSets, TLC

VARIABLES
    pc,               \* position in main() / generate_image()
    runs,             \* number of invocations started so far
    clock,            \* wall clock, in ticks of 1/TicksPerSecond second
    api_key,          \* os.environ.get('GOOGLE_API_KEY')
    args,             \* argparse namespace: prompt, output, quiet
    response,         \* outcome of requests.post: None or <<[status, body]>>
    result,           \* response.json()
    image_data,       \* base64 payload picked by the extraction loop
    img,              \* PIL image opened from the decoded payload
    output_filename,  \* parameter / local of generate_image
    output_path,      \* value returned by generate_image
    exc,              \* exception in flight: None or <<[type, msg, detail]>>
    stdout,           \* lines printed to standard output by this invocation
    stderr,           \* lines printed to standard error by this invocation
    exit_code,        \* None while running, <<0>> or <<1>> once terminated
    events,           \* side effects of this invocation, in order
    dirs,             \* whether public/images exists
    fs,               \* files under public/images: path -> [writer, complete]
    prev              \* summaries of earlier successful invocations

vars == <<pc, runs, clock, api_key, args, response, result, image_data, img,
          output_filename, output_path, exc, stdout, stderr, exit_code,
          events, dirs, fs, prev>>

----------------------------------------------------------------------------
(* Bounds of the model *)

MaxRuns == 2
MaxAdvance == 2
TicksPerSecond == 2
MaxTail == 3
MaxCandidates == 2
MaxParts == 2

(* prompt[:30] *)
PromptLimit == 30

----------------------------------------------------------------------------
(* Python values *)

None == <<>>
Some(v) == <<v>>
Val(o) == o[1]

Min(a, b) == IF a < b THEN a ELSE b

(* truth value of an optional str: None and "" are falsy *)
Truthy(o) == o /= None /\ Val(o) /= ""

(* truth value of an optional sequence of characters *)
TruthySeq(o) == o /= None /\ Val(o) /= <<>>

----------------------------------------------------------------------------
(* Characters and strings *)

Letters ==
    {"a", "b", "c", "d", "e", "f", "g", "h", "i", "j", "k", "l", "m",
     "n", "o", "p", "q", "r", "s", "t", "u", "v", "w", "x", "y", "z",
     "A", "B", "C", "D", "E", "F", "G", "H", "I", "J", "K", "L", "M",
     "N", "O", "P", "Q", "R", "S", "T", "U", "V", "W", "X", "Y", "Z"}

DigitChars == <<"0", "1", "2", "3", "4", "5", "6", "7", "8", "9">>

(* str.isalnum() of one character *)
IsAlnum(c) == c \in Letters \/ c \in {DigitChars[i] : i \in 1..10}

(* characters str.strip() removes *)
Whitespace == {" ", "\t", "\n", "\r"}

(* c if c.isalnum() or c in (' ', '-', '_') else '' *)
KeepChar(c) == IF IsAlnum(c) \/ c \in {" ", "-", "_"} THEN <<c>> ELSE <<>>

(* "".join(KeepChar(c) for c in s) *)
RECURSIVE JoinKept(_)
JoinKept(s) ==
    IF s = <<>> THEN <<>> ELSE KeepChar(Head(s)) \o JoinKept(Tail(s))

(* s[:n] *)
Slice(s, n) == SubSeq(s, 1, Min(n, Len(s)))

RECURSIVE LStrip(_)
LStrip(s) ==
    IF s /= <<>> /\ Head(s) \in Whitespace THEN LStrip(Tail(s)) ELSE s

RECURSIVE RStrip(_)
RStrip(s) ==
    IF s /= <<>> /\ s[Len(s)] \in Whitespace
    THEN RStrip(SubSeq(s, 1, Len(s) - 1))
    ELSE s

(* s.strip() *)
Strip(s) == RStrip(LStrip(s))

(* s.replace(a, b) for single characters a, b *)
Replace(s, a, b) == [i \in 1..Len(s) |-> IF s[i] = a THEN b ELSE s[i]]

(* the fragment with the slice taken after the filter instead of before *)
SafePromptSliceLate(p) ==
    Replace(Strip(Slice(JoinKept(p), PromptLimit)), " ", "_")

(* safe_prompt: lines 122-125 *)
SafePrompt(p) == Replace(Strip(JoinKept(Slice(p, PromptLimit))), " ", "_")

(* two decimal digits, as %H %M %S print them *)
TwoDigits(n) == <<DigitChars[(n \div 10) + 1], DigitChars[(n % 10) + 1]>>

(* the local date of clock value 0; the clock stays within that day *)
StartDate == <<"2", "0", "2", "4", "0", "1", "1", "5">>

(* whole seconds of a clock value: strftime has no sub-second field *)
Seconds(t) == t \div TicksPerSecond

(* a timestamp without the seconds field *)
StrftimeMinutes(t) ==
    StartDate \o <<"_">> \o TwoDigits((Seconds(t) \div 3600) % 24)
        \o TwoDigits((Seconds(t) \div 60) % 60)

(* datetime.now().strftime("%Y%m%d_%H%M%S") at clock value t *)
Strftime(t) ==
    StartDate \o <<"_">> \o TwoDigits((Seconds(t) \div 3600) % 24)
        \o TwoDigits((Seconds(t) \div 60) % 60) \o TwoDigits(Seconds(t) % 60)

GeneratedPrefix == <<"g", "e", "n", "e", "r", "a", "t", "e", "d", "_">>

(* f"generated_{safe_prompt}_{timestamp}" *)
DerivedFilename(p, t) ==
    GeneratedPrefix \o SafePrompt(p) \o <<"_">> \o Strftime(t)

(* a handler that ignores the caller's output name *)
ChooseFilenameDerived(o, p, t) == DerivedFilename(p, t)

(* lines 119-126: the derived name is used when "not output_filename" *)
ChooseFilename(o, p, t) ==
    IF ~TruthySeq(o) THEN DerivedFilename(p, t) ELSE Val(o)

PublicImages ==
    <<"p", "u", "b", "l", "i", "c", "/", "i", "m", "a", "g", "e", "s", "/">>

PngExt == <<".", "p", "n", "g">>

(* f"public/images/{output_filename}.png" *)
OutputPath(name) == PublicImages \o name \o PngExt

----------------------------------------------------------------------------
(* Exceptions and messages *)

ConfigMsg == "GOOGLE_API_KEY environment variable not set."
AuthMsg == "Invalid API key. Please check your GOOGLE_API_KEY."
PermMsg == "API key doesn't have required permissions."
RateMsg == "Rate limit exceeded. Please wait and try again."
ApiMsg == "API request failed: "
TimeoutMsg == "API request timed out. Please try again."
NetworkMsg == "Network error: "
NoDataMsg == "No image data received from API. Response: "
DecodeMsg == "Failed to decode image data: "

(* an exception in flight; detail is the value formatted into the message *)
Raise(type, msg, detail) == Some([type |-> type, msg |-> msg, detail |-> detail])

(* isinstance(e, ValueError): json's JSONDecodeError derives from ValueError *)
IsValueError(type) == type \in {"ValueError", "JSONDecodeError"}

(* a credential check that lets every value through *)
KeyMissingNever(k) == FALSE

(* "if not api_key" *)
KeyMissing(k) == ~Truthy(k)

(* progress messages printed even in quiet mode *)
VerboseAlways(a) == TRUE

(* verbose=not args.quiet *)
Verbose(a) == ~a.quiet

(* Response.raise_for_status(): HTTPError for a 4xx or 5xx status only *)
RaisesForStatus(status) == 400 <= status /\ status < 600

(* the except HTTPError branch, by response.status_code *)
StatusMessage(status) ==
    IF status = 401 THEN AuthMsg
    ELSE IF status = 403 THEN PermMsg
    ELSE IF status = 429 THEN RateMsg
    ELSE ApiMsg

(* base64.b64decode and Image.open succeed on these payloads *)
Decodable(data) == data \in {"A", "B"}

----------------------------------------------------------------------------
(* The extraction loop over result['candidates'][i]['content']['parts'][j] *)

(* result.get('candidates', []) *)
CandidatesOf(body) ==
    IF body.candidates = None THEN <<>> ELSE Val(body.candidates)

(* candidate.get('content', {}).get('parts', []) *)
PartsOf(candidate) ==
    IF candidate.content = None THEN <<>>
    ELSE IF Val(candidate.content).parts = None THEN <<>>
    ELSE Val(Val(candidate.content).parts)

(* the inner loop without its break: the last inline-data part wins *)
RECURSIVE ScanPartsLast(_)
ScanPartsLast(parts) ==
    IF parts = <<>> THEN [hit |-> FALSE, raised |-> FALSE, data |-> ""]
    ELSE LET rest == ScanPartsLast(Tail(parts))
         IN  IF rest.hit \/ Head(parts).inlineData = None THEN rest
             ELSE IF Val(Head(parts).inlineData).data = None
             THEN [hit |-> TRUE, raised |-> TRUE, data |-> ""]
             ELSE [hit |-> TRUE, raised |-> FALSE,
                   data |-> Val(Val(Head(parts).inlineData).data)]

(* the inner loop: stops at the first part with 'inlineData' and reads its
   ['data'], a KeyError when the key is absent *)
RECURSIVE ScanParts(_)
ScanParts(parts) ==
    IF parts = <<>> THEN [hit |-> FALSE, raised |-> FALSE, data |-> ""]
    ELSE IF Head(parts).inlineData = None THEN ScanParts(Tail(parts))
    ELSE IF Val(Head(parts).inlineData).data = None
    THEN [hit |-> TRUE, raised |-> TRUE, data |-> ""]
    ELSE [hit |-> TRUE, raised |-> FALSE,
          data |-> Val(Val(Head(parts).inlineData).data)]

(* the outer loop: cur is image_data so far; "if image_data: break" *)
RECURSIVE ScanCandidates(_, _)
ScanCandidates(cands, cur) ==
    IF cands = <<>> THEN [raised |-> FALSE, image_data |-> cur]
    ELSE LET r == ScanParts(PartsOf(Head(cands)))
             d == IF r.hit THEN Some(r.data) ELSE cur
         IN  IF r.raised THEN [raised |-> TRUE, image_data |-> cur]
             ELSE IF Truthy(d) THEN [raised |-> FALSE, image_data |-> d]
             ELSE ScanCandidates(Tail(cands), d)

----------------------------------------------------------------------------
(* Inputs and environment *)

Prompts == {<<"c", "a", "t">>, <<"a", " ", "b", "!">>}

Outputs == {None, Some(<<>>), Some(<<"n">>)}

Keys == {None, Some(""), Some("k")}

Statuses == {200, 304, 401, 403, 429, 500}

Part(inline) == [inlineData |-> inline]
TextPart == Part(None)
InlinePart(data) == Part(Some([data |-> data]))

Candidate(parts) == [content |-> Some([parts |-> Some(parts)])]

JsonObject(cands) == [kind |-> "object", candidates |-> cands]
NotJson == [kind |-> "text", candidates |-> None]
JsonArray == [kind |-> "array", candidates |-> None]

(* response bodies of the invocations *)
Bodies ==
    {NotJson, JsonArray, JsonObject(None),
     JsonObject(Some(<<Candidate(<<TextPart>>)>>)),
     JsonObject(Some(<<Candidate(<<InlinePart(None)>>)>>)),
     JsonObject(Some(<<Candidate(<<TextPart, InlinePart(Some("A"))>>)>>)),
     JsonObject(Some(<<Candidate(<<InlinePart(Some("X"))>>)>>))}

SeqsUpTo(S, n) == UNION {[1..k -> S] : k \in 0..n}

PartKinds == {"text", "nodata", "empty", "image"}

PayloadNames ==
    <<"A", "B", "C", "D", "E", "F", "G", "H", "I", "J", "K", "L", "M",
      "N", "O", "P", "Q", "R", "S", "T", "U", "V", "W", "X", "Y", "Z">>

(* part j of candidate i: every image part carries a payload of its own *)
PartAt(kind, i, j) ==
    IF kind = "text" THEN TextPart
    ELSE IF kind = "nodata" THEN InlinePart(None)
    ELSE IF kind = "empty" THEN InlinePart(Some(""))
    ELSE InlinePart(Some(PayloadNames[(i - 1) * MaxParts + j]))

CandidateShapes ==
    {[shape |-> "nocontent", kinds |-> <<>>],
     [shape |-> "noparts", kinds |-> <<>>]}
        \cup {[shape |-> "parts", kinds |-> ks] : ks \in SeqsUpTo(PartKinds, MaxParts)}

CandidateAt(c, i) ==
    IF c.shape = "nocontent" THEN [content |-> None]
    ELSE IF c.shape = "noparts" THEN [content |-> Some([parts |-> None])]
    ELSE Candidate([j \in 1..Len(c.kinds) |-> PartAt(c.kinds[j], i, j)])

TailAlphabet == {"a", "7", " ", "-", "_", "!", "\t"}

Pad(n) == [i \in 1..n |-> "x"]

PadLengths == {0, PromptLimit - 2, PromptLimit - 1, PromptLimit}

(* prompts around the 30 character limit *)
SanitizePrompts ==
    {Pad(n) \o t : n \in PadLengths, t \in SeqsUpTo(TailAlphabet, MaxTail)}

----------------------------------------------------------------------------
(* Output lines *)

Line(tag, arg) == [tag |-> tag, arg |-> arg]

AnnounceLines(a) ==
    <<Line("Prompt: ", a.prompt), Line("Generating image with Nano Banana...", <<>>)>>

ReceivedLines ==
    <<Line("Image received from API", <<>>), Line("Saving image...", <<>>)>>

SavedLines(path) ==
    <<Line("Image saved to: ", path), Line("Dimensions: ", <<>>)>>

(* print(output_path) *)
PathLine(path) == Line("", path)

FileEntry(writer, complete) == [writer |-> writer, complete |-> complete]

(* what a later invocation can observe of a successful one *)
Summary ==
    [prompt |-> args.prompt, output |-> args.output, time |-> clock,
     path |-> Val(output_path)]

----------------------------------------------------------------------------
(* main(): parse the arguments and call generate_image *)

Start ==
    /\ pc \in {"idle", "done"}
    /\ runs < MaxRuns
    /\ \E p \in Prompts, o \in Outputs, q \in BOOLEAN, k \in Keys,
          d \in 1..MaxAdvance :
          /\ args' = [prompt |-> p, output |-> o, quiet |-> q]
          /\ output_filename' = o
          /\ api_key' = k
          /\ clock' = clock + d
    /\ runs' = runs + 1
    /\ prev' = IF pc = "done" /\ exit_code = Some(0)
               THEN prev \cup {Summary} ELSE prev
    /\ response' = None /\ result' = None /\ image_data' = None
    /\ img' = None /\ output_path' = None /\ exc' = None
    /\ stdout' = <<>> /\ stderr' = <<>> /\ exit_code' = None
    /\ events' = <<>>
    /\ pc' = "check_key"
    /\ UNCHANGED <<dirs, fs>>

(* lines 38-45 *)
CheckKey ==
    /\ pc = "check_key"
    /\ IF KeyMissing(api_key)
       THEN /\ exc' = Raise("ValueError", ConfigMsg, None)
            /\ pc' = "raised"
       ELSE /\ pc' = "announce"
            /\ UNCHANGED exc
    /\ UNCHANGED <<runs, clock, api_key, args, response, result, image_data,
                   img, output_filename, output_path, stdout, stderr,
                   exit_code, events, dirs, fs, prev>>

(* lines 47-49 *)
Announce ==
    /\ pc = "announce"
    /\ stdout' = IF Verbose(args) THEN stdout \o AnnounceLines(args) ELSE stdout
    /\ pc' = "post"
    /\ UNCHANGED <<runs, clock, api_key, args, response, result, image_data,
                   img, output_filename, output_path, exc, stderr, exit_code,
                   events, dirs, fs, prev>>

(* line 75 with the handlers of lines 86-89: the request is answered, times
   out, or fails in transport *)
Post ==
    /\ pc = "post"
    /\ events' = Append(events, "post")
    /\ \/ /\ \E st \in Statuses, b \in Bodies :
               /\ (RaisesForStatus(st) => b = NotJson)
               /\ response' = Some([status |-> st, body |-> b])
          /\ pc' = "raise_for_status"
          /\ UNCHANGED exc
       \/ /\ exc' = Raise("ValueError", TimeoutMsg, None)
          /\ pc' = "raised"
          /\ UNCHANGED response
       \/ /\ exc' = Raise("ValueError", NetworkMsg, None)
          /\ pc' = "raised"
          /\ UNCHANGED response
    /\ UNCHANGED <<runs, clock, api_key, args, result, image_data, img,
                   output_filename, output_path, stdout, stderr, exit_code,
                   dirs, fs, prev>>

(* line 76 with the handler of lines 77-85 *)
RaiseForStatus ==
    /\ pc = "raise_for_status"
    /\ IF RaisesForStatus(Val(response).status)
       THEN /\ exc' = Raise("ValueError", StatusMessage(Val(response).status), None)
            /\ pc' = "raised"
       ELSE /\ pc' = "json"
            /\ UNCHANGED exc
    /\ UNCHANGED <<runs, clock, api_key, args, response, result, image_data,
                   img, output_filename, output_path, stdout, stderr,
                   exit_code, events, dirs, fs, prev>>

(* line 92: response.json() raises JSONDecodeError on a body that is not JSON *)
ParseJson ==
    /\ pc = "json"
    /\ IF Val(response).body.kind = "text"
       THEN /\ exc' = Raise("JSONDecodeError", "Expecting value", None)
            /\ pc' = "raised"
            /\ UNCHANGED result
       ELSE /\ result' = Some(Val(response).body)
            /\ pc' = "extract"
            /\ UNCHANGED exc
    /\ UNCHANGED <<runs, clock, api_key, args, response, image_data, img,
                   output_filename, output_path, stdout, stderr, exit_code,
                   events, dirs, fs, prev>>

(* lines 94-109 *)
ExtractImageData ==
    /\ pc = "extract"
    /\ IF Val(result).kind /= "object"
       THEN /\ exc' = Raise("AttributeError", "'list' object has no attribute 'get'", None)
            /\ pc' = "raised"
            /\ UNCHANGED <<image_data, stdout>>
       ELSE LET r == ScanCandidates(CandidatesOf(Val(result)), None)
            IN  IF r.raised
                THEN /\ exc' = Raise("KeyError", "'data'", None)
                     /\ pc' = "raised"
                     /\ UNCHANGED <<image_data, stdout>>
                ELSE IF ~Truthy(r.image_data)
                THEN /\ exc' = Raise("ValueError", NoDataMsg, result)
                     /\ image_data' = r.image_data
                     /\ pc' = "raised"
                     /\ UNCHANGED stdout
                ELSE /\ image_data' = r.image_data
                     /\ stdout' = IF Verbose(args)
                                  THEN stdout \o ReceivedLines ELSE stdout
                     /\ pc' = "decode"
                     /\ UNCHANGED exc
    /\ UNCHANGED <<runs, clock, api_key, args, response, result, img,
                   output_filename, output_path, stderr, exit_code, events,
                   dirs, fs, prev>>

(* lines 111-116 *)
Decode ==
    /\ pc = "decode"
    /\ IF Decodable(Val(image_data))
       THEN /\ img' = image_data
            /\ events' = Append(events, "decode")
            /\ pc' = "filename"
            /\ UNCHANGED exc
       ELSE /\ exc' = Raise("ValueError", DecodeMsg, None)
            /\ pc' = "raised"
            /\ UNCHANGED <<img, events>>
    /\ UNCHANGED <<runs, clock, api_key, args, response, result, image_data,
                   output_filename, output_path, stdout, stderr, exit_code,
                   dirs, fs, prev>>

(* lines 118-126 *)
MakeFilename ==
    /\ pc = "filename"
    /\ output_filename' = Some(ChooseFilename(output_filename, args.prompt, clock))
    /\ pc' = "makedirs"
    /\ UNCHANGED <<runs, clock, api_key, args, response, result, image_data,
                   img, output_path, exc, stdout, stderr, exit_code, events,
                   dirs, fs, prev>>

(* lines 128-129: os.makedirs creates the directory, or fails to *)
MakeDirs ==
    /\ pc = "makedirs"
    /\ \/ /\ dirs' = TRUE
          /\ events' = Append(events, "makedirs")
          /\ pc' = "save"
          /\ UNCHANGED exc
       \/ /\ ~dirs
          /\ exc' = Raise("OSError", "Permission denied: 'public'", None)
          /\ pc' = "raised"
          /\ UNCHANGED <<dirs, events>>
    /\ UNCHANGED <<runs, clock, api_key, args, response, result, image_data,
                   img, output_filename, output_path, stdout, stderr,
                   exit_code, fs, prev>>

(* lines 131-133: img.save opens the path for writing, which truncates a file
   already there, and writes the image.  A failing save raises before the
   file is opened, or while writing: a file that was already there is then
   left truncated (one that the save created itself is removed again). *)
Save ==
    /\ pc = "save"
    /\ output_path' = Some(OutputPath(Val(output_filename)))
    /\ \/ /\ fs' = (Val(output_path') :> FileEntry(runs, TRUE)) @@ fs
          /\ events' = Append(events, "save")
          /\ pc' = "report"
          /\ UNCHANGED exc
       \/ /\ exc' = Raise("OSError", "cannot open file", None)
          /\ pc' = "raised"
          /\ UNCHANGED <<fs, events>>
       \/ /\ Val(output_path') \in DOMAIN fs
          /\ fs' = (Val(output_path') :> FileEntry(runs, FALSE)) @@ fs
          /\ events' = Append(events, "save")
          /\ exc' = Raise("OSError", "No space left on device", None)
          /\ pc' = "raised"
    /\ UNCHANGED <<runs, clock, api_key, args, response, result, image_data,
                   img, output_filename, stdout, stderr, exit_code, dirs, prev>>

(* lines 135-139 *)
Report ==
    /\ pc = "report"
    /\ stdout' = IF Verbose(args)
                 THEN stdout \o SavedLines(Val(output_path)) ELSE stdout
    /\ pc' = "returned"
    /\ UNCHANGED <<runs, clock, api_key, args, response, result, image_data,
                   img, output_filename, output_path, exc, stderr, exit_code,
                   events, dirs, fs, prev>>

(* lines 172-173, then the implicit exit code 0 *)
MainSuccess ==
    /\ pc = "returned"
    /\ stdout' = IF args.quiet
                 THEN Append(stdout, PathLine(Val(output_path))) ELSE stdout
    /\ exit_code' = Some(0)
    /\ pc' = "done"
    /\ UNCHANGED <<runs, clock, api_key, args, response, result, image_data,
                   img, output_filename, output_path, exc, stderr, events,
                   dirs, fs, prev>>

(* lines 175-180 *)
MainExcept ==
    /\ pc = "raised"
    /\ stderr' = Append(stderr,
                    Line(IF IsValueError(Val(exc).type)
                         THEN "Error: " ELSE "Unexpected error: ",
                         Val(exc).msg))
    /\ exit_code' = Some(1)
    /\ pc' = "done"
    /\ UNCHANGED <<runs, clock, api_key, args, response, result, image_data,
                   img, output_filename, output_path, exc, stdout, events,
                   dirs, fs, prev>>

----------------------------------------------------------------------------
(* Specifications *)

NoArgs == [prompt |-> <<>>, output |-> None, quiet |-> FALSE]

Init ==
    /\ pc = "idle"
    /\ runs = 0
    /\ clock = 0
    /\ api_key = None
    /\ args = NoArgs
    /\ response = None /\ result = None /\ image_data = None
    /\ img = None /\ output_filename = None /\ output_path = None
    /\ exc = None
    /\ stdout = <<>> /\ stderr = <<>> /\ exit_code = None
    /\ events = <<>>
    /\ dirs = FALSE
    /\ fs = <<>>
    /\ prev = {}

Next ==
    \/ Start
    \/ CheckKey
    \/ Announce
    \/ Post
    \/ RaiseForStatus
    \/ ParseJson
    \/ ExtractImageData
    \/ Decode
    \/ MakeFilename
    \/ MakeDirs
    \/ Save
    \/ Report
    \/ MainSuccess
    \/ MainExcept

Spec == Init /\ [][Next]_vars

(* The handler at line 94, a JSON object in hand *)
InitExtract ==
    /\ pc = "extract"
    /\ runs = 1
    /\ clock = 1
    /\ api_key = Some("k")
    /\ args = [prompt |-> <<"c", "a", "t">>, output |-> None, quiet |-> TRUE]
    /\ stdout = <<>>
    /\ \/ result = Some(JsonObject(None))
       \/ \E k \in 0..MaxCandidates : \E cs \in [1..k -> CandidateShapes] :
             result = Some(JsonObject(Some([i \in 1..k |-> CandidateAt(cs[i], i)])))
    /\ response = Some([status |-> 200, body |-> Val(result)])
    /\ image_data = None
    /\ img = None /\ output_filename = None /\ output_path = None
    /\ exc = None
    /\ stderr = <<>> /\ exit_code = None
    /\ events = <<"post">>
    /\ dirs = FALSE
    /\ fs = <<>>
    /\ prev = {}

SpecExtract == InitExtract /\ [][ExtractImageData]_vars

OkBody == JsonObject(Some(<<Candidate(<<InlinePart(Some("A"))>>)>>))

(* The handler at line 118, the image decoded, no output name given *)
InitFilename ==
    /\ pc = "filename"
    /\ runs = 1
    /\ clock \in 1..MaxAdvance
    /\ api_key = Some("k")
    /\ \E p \in SanitizePrompts :
          args = [prompt |-> p, output |-> None, quiet |-> TRUE]
    /\ response = Some([status |-> 200, body |-> OkBody])
    /\ result = Some(OkBody)
    /\ image_data = Some("A")
    /\ img = Some("A") /\ output_filename = None /\ output_path = None
    /\ exc = None
    /\ stdout = <<>> /\ stderr = <<>> /\ exit_code = None
    /\ events = <<"post", "decode">>
    /\ dirs = FALSE
    /\ fs = <<>>
    /\ prev = {}

SpecFilename == InitFilename /\ [][MakeFilename]_vars

----------------------------------------------------------------------------
(* Properties *)

Terminated == pc = "done"
Succeeded == pc = "done" /\ exit_code = Some(0)
Failed == pc = "done" /\ exc /= None

(* files this invocation wrote, in full or in part *)
WrittenNow == {path \in DOMAIN fs : fs[path].writer = runs}

(* C1: with GOOGLE_API_KEY missing (unset or empty) the handler raises the
   configuration error first: the invocation sends no POST, creates no
   directory and writes no file, and it ends with that error. *)
C1_MissingKeyNoSideEffect ==
    (pc /= "idle" /\ api_key \in {None, Some("")}) =>
        /\ events = <<>>
        /\ WrittenNow = {}
        /\ response = None
        /\ pc \in {"check_key", "raised", "done"}
        /\ pc \in {"raised", "done"} =>
              /\ exc /= None
              /\ Val(exc).type = "ValueError"
              /\ Val(exc).msg = ConfigMsg
        /\ Terminated => exit_code = Some(1)

C1_Witness ==
    /\ Terminated
    /\ api_key = None
    /\ exit_code = Some(1)
    /\ Val(exc).msg = ConfigMsg
    /\ events = <<>>

(* C2: every failing invocation ends with exit code 1 and has written no
   output file, whole or partial; the file is written only after the payload
   was decoded. *)
C2_FailureLeavesNoFile ==
    /\ \A i \in 1..Len(events) :
          events[i] = "save" => \E j \in 1..(i - 1) : events[j] = "decode"
    /\ Failed => exit_code = Some(1) /\ WrittenNow = {}

(* C3: every response whose status is not 2xx is turned into an error, 401,
   403 and 429 with their own messages and any other status with the generic
   one, and none of them reaches the extraction of the response. *)
C3_NonSuccessStatusIsError ==
    (response /= None /\ Val(response).status \notin 200..299) =>
        /\ pc \in {"raise_for_status", "raised", "done"}
        /\ pc \in {"raised", "done"} =>
              /\ exc /= None
              /\ Val(exc).type = "ValueError"
              /\ Val(exc).msg =
                    (CASE Val(response).status = 401 -> AuthMsg
                       [] Val(response).status = 403 -> PermMsg
                       [] Val(response).status = 429 -> RateMsg
                       [] OTHER -> ApiMsg)

InlineAt(c, j) == PartsOf(c)[j].inlineData /= None

HasInline(c) == \E j \in 1..Len(PartsOf(c)) : InlineAt(c, j)

(* the 'data' entry, None when absent, of the first inline-data part of c *)
FirstInlineData(c) ==
    LET j == CHOOSE k \in 1..Len(PartsOf(c)) :
                 InlineAt(c, k) /\ \A l \in 1..(k - 1) : ~InlineAt(c, l)
    IN  Val(PartsOf(c)[j].inlineData).data

Cands == CandidatesOf(Val(result))

(* C4 as stated: the payload chosen is the data of the first inline-data part
   of the first candidate that has one; later candidates are never used. *)
C4_FirstCandidateWithInline ==
    pc = "decode" =>
        \E i \in 1..Len(Cands) :
            /\ HasInline(Cands[i])
            /\ \A k \in 1..(i - 1) : ~HasInline(Cands[k])
            /\ image_data = FirstInlineData(Cands[i])

(* C4 amended: a payload that is chosen is the non-empty data of the first
   inline-data part of some candidate i, and every earlier candidate has no
   inline-data part or has the empty string as the data of its first one;
   parts after a candidate's first inline-data part are never used. *)
C4_FirstNonEmptyInline ==
    pc = "decode" =>
        \E i \in 1..Len(Cands) :
            /\ HasInline(Cands[i])
            /\ image_data = FirstInlineData(Cands[i])
            /\ Val(image_data) /= ""
            /\ \A k \in 1..(i - 1) :
                  HasInline(Cands[k]) => FirstInlineData(Cands[k]) = Some("")

C4_Witness ==
    /\ pc = "decode"
    /\ \E i \in 2..Len(Cands) :
          /\ HasInline(Cands[i])
          /\ image_data = FirstInlineData(Cands[i])
          /\ Len(PartsOf(Cands[i])) > 1
          /\ \E k \in 1..(i - 1) : HasInline(Cands[k])

(* C5: an absent candidates, content, parts, inlineData or inlineData.data
   field counts as empty, so extraction from a JSON object ends either with a
   payload or with the no-image-data error that carries the raw response. *)
C5_AbsentFieldsAreEmpty ==
    (pc /= "extract" /\ result /= None /\ Val(result).kind = "object") =>
        \/ pc = "decode" /\ Truthy(image_data)
        \/ /\ pc = "raised"
           /\ Val(exc).type = "ValueError"
           /\ Val(exc).msg = NoDataMsg
           /\ Val(exc).detail = result

(* messages of the error kinds 1 to 9 *)
ClassifiedMsgs ==
    {ConfigMsg, AuthMsg, PermMsg, RateMsg, ApiMsg, TimeoutMsg, NetworkMsg,
     NoDataMsg, DecodeMsg}

(* C6: main ends in one of three ways: success with exit code 0; an error of
   kinds 1 to 9 with the "Error:" line and exit code 1; any other failure
   (invalid JSON, malformed structure, file system) with the "Unexpected
   error" line and exit code 1. *)
C6_ThreeOutcomes ==
    Terminated =>
        \/ exc = None /\ exit_code = Some(0) /\ stderr = <<>>
        \/ /\ exc /= None
           /\ exit_code = Some(1)
           /\ Len(stderr) = 1
           /\ stderr[1].arg = Val(exc).msg
           /\ stderr[1].tag = IF Val(exc).msg \in ClassifiedMsgs
                              THEN "Error: " ELSE "Unexpected error: "

(* C7 as stated: for any string N given as --output a successful invocation
   writes and returns public/images/N.png, so it writes to the path of every
   earlier successful invocation given the same --output. *)
C7_AnyOutputName ==
    (Succeeded /\ args.output /= None) =>
        /\ output_path = Some(PublicImages \o Val(args.output) \o PngExt)
        /\ \A s \in prev : s.output = args.output => s.path = Val(output_path)

(* C7 amended: for any non-empty N given as --output a successful invocation
   writes and returns public/images/N.png whatever the prompt and the time,
   so it overwrites the file of every earlier successful invocation given
   the same --output. *)
C7_NonEmptyOutputName ==
    (Succeeded /\ args.output /= None /\ Val(args.output) /= <<>>) =>
        /\ output_path = Some(PublicImages \o Val(args.output) \o PngExt)
        /\ Val(output_path) \in DOMAIN fs
        /\ fs[Val(output_path)] = FileEntry(runs, TRUE)
        /\ \A s \in prev : s.output = args.output => s.path = Val(output_path)

C7_Witness ==
    /\ Succeeded
    /\ args.output = Some(<<"n">>)
    /\ \E s \in prev : s.output = args.output /\ s.prompt /= args.prompt
    /\ fs[Val(output_path)].writer = runs

(* C8 as stated: without --output, two successful invocations with the same
   prompt at different times get different file names, and the later one
   does not overwrite the file of the earlier one. *)
C8_DifferentTimes ==
    (Succeeded /\ args.output = None) =>
        \A s \in prev :
            (s.output = None /\ s.prompt = args.prompt /\ s.time /= clock) =>
                s.path /= Val(output_path)

(* C8 amended: without --output, two successful invocations with the same
   prompt whose times fall in different whole seconds get different file
   names, and the later one does not overwrite the file of the earlier one. *)
C8_DifferentSeconds ==
    (Succeeded /\ args.output = None) =>
        \A s \in prev :
            (/\ s.output = None
             /\ s.prompt = args.prompt
             /\ s.time \div TicksPerSecond /= clock \div TicksPerSecond) =>
                /\ s.path /= Val(output_path)
                /\ fs[s.path].writer /= runs

C8_Witness ==
    /\ Succeeded
    /\ args.output = None
    /\ \E s \in prev :
          /\ s.output = None
          /\ s.prompt = args.prompt
          /\ s.time \div TicksPerSecond /= clock \div TicksPerSecond
          /\ fs[s.path].complete

RefAllowed(c) ==
    c \in Letters \cup {DigitChars[i] : i \in 1..10} \cup {" ", "-", "_"}

RefFirst30(p) == [i \in 1..(IF Len(p) < 30 THEN Len(p) ELSE 30) |-> p[i]]

RefTrim(s) ==
    LET inner == {i \in 1..Len(s) : s[i] \notin Whitespace}
    IN  IF inner = {} THEN <<>>
        ELSE LET lo == CHOOSE i \in inner : \A k \in inner : i <= k
                 hi == CHOOSE i \in inner : \A k \in inner : k <= i
             IN  [i \in 1..(hi - lo + 1) |-> s[lo + i - 1]]

(* first 30 characters, allowed characters kept, trimmed, spaces replaced *)
RefFragment(p) ==
    LET t == RefTrim(SelectSeq(RefFirst30(p), RefAllowed))
    IN  [i \in 1..Len(t) |-> IF t[i] = " " THEN "_" ELSE t[i]]

(* C9: the derived file name is generated_ + fragment + _ + timestamp, where
   the fragment is the reference sanitization of the prompt; it has at most
   30 characters, all of them alphanumeric, '-' or '_'. *)
C9_SanitizedFragment ==
    (pc = "makedirs" /\ args.output = None) =>
        LET frag == RefFragment(args.prompt)
        IN  /\ output_filename =
                  Some(GeneratedPrefix \o frag \o <<"_">> \o Strftime(clock))
            /\ Len(frag) <= 30
            /\ \A i \in 1..Len(frag) : frag[i] /= " " /\ RefAllowed(frag[i])

C9_Witness ==
    /\ pc = "makedirs"
    /\ args.output = None
    /\ Len(args.prompt) > 30
    /\ args.prompt[29] = "!"
    /\ args.prompt[30] = " "
    /\ Len(Val(output_filename)) = Len(GeneratedPrefix) + 28 + 1 + Len(Strftime(clock))

(* C10: in quiet mode the handler prints no progress line at any step, a
   successful invocation prints exactly one line, the returned path, and a
   failing one prints nothing to standard output; otherwise a successful
   invocation prints several progress lines and no separate path line. *)
C10_QuietOutput ==
    /\ (pc /= "idle" /\ args.quiet /\ ~Succeeded) => stdout = <<>>
    /\ (Succeeded /\ args.quiet) => stdout = <<[tag |-> "", arg |-> Val(output_path)]>>
    /\ (Succeeded /\ ~args.quiet) =>
          /\ Len(stdout) > 1
          /\ \A i \in 1..Len(stdout) : stdout[i].tag /= ""

C10_Witness ==
    /\ Succeeded
    /\ args.quiet
    /\ Len(stdout) = 1
    /\ stdout[1].arg = Val(output_path)

====
